---- MODULE Spec2Model ----
(***************************************************************************)
(* OfflineSQSInvokePlugin: the resolver that start() runs over the         *)
(* service's resources and functions to build queueHandlers, and the HTTP  *)
(* gateway (startHttp, onMessage) that turns a SendMessage request into    *)
(* one Lambda invocation.                                                  *)
(*                                                                         *)
(* JavaScript values are represented as follows.  A string that the code   *)
(* splits or tests for emptiness (an ARN, a queue name, a field of a       *)
(* request) is the tuple of its separators and of the text between them;   *)
(* every other string is a TLA+ string.  An object is a record, and a      *)
(* property that is undefined is a field that is not in the record's       *)
(* DOMAIN.  Object.entries(o) is a sequence of <<key, value>> pairs.       *)
(***************************************************************************)
EXTENDS Naturals, Sequences, FiniteSets, TLC

VARIABLES
    service,        \* this.serverless.service: resources?.Resources, functions
    queueHandlers,  \* this.queueHandlers, as its entries in insertion order
    pc,             \* "constructed", then in start(): "resources", "functions";
                    \* after it: "started", "aborted" (left by an exception), "exited"
    i,              \* start(): index of the next entry of Object.entries(resources)
    j,              \* start(): index of the current entry of Object.entries(functions)
    k,              \* start(): index of the next event of definition.events, 0 before the loop
    listening,      \* the socket of this.server.listen(3003) is accepting connections
    requests,       \* the requests the listener has accepted, in arrival order
    invocations,    \* the InvokeCommands handed to this.lambdaClient.send, in order
    log             \* the lines written through this.logging.log, in order

vars == <<service, queueHandlers, pc, i, j, k, listening, requests, invocations, log>>

(***************************************************************************)
(* Bounds of the model.                                                    *)
(***************************************************************************)
\* a configuration has at most MaxEntries entries: its resources, and its
\* functions counted once for each event they have (once when they have none)
MaxEntries == 3
\* the listener accepts at most MaxRequests requests
MaxRequests == 2

(***************************************************************************)
(* Strings and their parsing.                                              *)
(***************************************************************************)
Null == "null"

Undefined == "undefined"

\* a string is truthy when it is not empty
Truthy(s) == s # <<>>

Has(o, f) == f \in DOMAIN o

\* LastSegment, were the first part of s to be taken: s.split(sep)[0]
LastSegmentFirst(s, sep) ==
    LET at == {n \in 1..Len(s) : s[n] = sep}
    IN  IF at = {} THEN s
        ELSE SubSeq(s, 1, (CHOOSE n \in at : \A m \in at : n <= m) - 1)

\* LastSegment, were s not to be split
LastSegmentWhole(s, sep) == s

\* s.split(sep).at(-1): the part of s after its last sep, all of s without one
LastSegment(s, sep) ==
    LET at == {n \in 1..Len(s) : s[n] = sep}
    IN  IF at = {} THEN s
        ELSE LET last == CHOOSE n \in at : \A m \in at : m <= n
             IN  SubSeq(s, last + 1, Len(s))

RECURSIVE SeqsUpTo(_, _)
SeqsUpTo(S, n) ==
    IF n = 0 THEN {<<>>}
    ELSE LET shorter == SeqsUpTo(S, n - 1)
         IN  shorter \cup {Append(s, x) : s \in {t \in shorter : Len(t) = n - 1}, x \in S}

(***************************************************************************)
(* The configuration start() reads.                                        *)
(***************************************************************************)
QueueType == "AWS::SQS::Queue"

QueueNames == {<<"a">>, <<"b">>}

ResourceKeys == <<"R1", "R2", "R3", "R4", "R5", "R6", "R7", "R8">>
FunctionKeys == <<"F1", "F2", "F3", "F4", "F5", "F6", "F7", "F8">>

ResourceValues ==
    {[Type |-> QueueType, Properties |-> [QueueName |-> n]] : n \in QueueNames}
    \cup {[Type |-> QueueType, Properties |-> [DelaySeconds |-> "0"]],
          [Type |-> QueueType],
          [Type |-> "AWS::SNS::Topic", Properties |-> [QueueName |-> <<"a">>]]}

ArnValues ==
    {[string |-> <<"x", ":", "a">>],
     [string |-> <<"b">>],
     [FnGetAtt |-> <<"R1", "Arn">>],
     [FnGetAtt |-> <<"R2", "Arn">>],
     [FnGetAtt |-> <<"R1", "QueueName">>]}

\* an event is an http event, an sqs event given as the ARN alone
\* (sqs: arn:...), an sqs event without arn, or an sqs event with an arn
EventValues ==
    {[http |-> "GET /"],
     [sqs |-> [string |-> <<"x", ":", "a">>]],
     [sqs |-> [batchSize |-> "1"]]}
    \cup {[sqs |-> [arn |-> a]] : a \in ArnValues}

Keyed(keys, values) == [n \in 1..Len(values) |-> <<keys[n], values[n]>>]

\* the function definitions that count for `weight` entries: the framework's
\* name for the function may be missing, and so may its events
DefinitionValues(key, weight) ==
    {[name |-> key, events |-> es] :
        es \in {t \in SeqsUpTo(EventValues, weight) : Len(t) = weight}}
    \cup IF weight = 1
         THEN {[name |-> key, events |-> <<>>], [name |-> key], [events |-> <<[sqs |-> [arn |-> [string |-> <<"x", ":", "a">>]]]>>]}
         ELSE {}

\* Object.entries(functions) from the key at `at` on, of at most `budget` entries
RECURSIVE FunctionEntries(_, _)
FunctionEntries(at, budget) ==
    {<<>>} \cup UNION
        {{<<(<<FunctionKeys[at], d>>)>> \o rest :
              d \in DefinitionValues(FunctionKeys[at], weight),
              rest \in FunctionEntries(at + 1, budget - weight)} :
          weight \in 1..budget}

ResourceEntries(n) ==
    {Keyed(ResourceKeys, rs) : rs \in {t \in SeqsUpTo(ResourceValues, n) : Len(t) = n}}

\* service is a configuration of at most MaxEntries entries, with or
\* without resources
IsService(s) ==
    \E n \in 0..MaxEntries :
        \E fs \in FunctionEntries(1, MaxEntries - n) :
            \/ n = 0 /\ s = [functions |-> fs]
            \/ \E rs \in ResourceEntries(n) : s = [resources |-> rs, functions |-> fs]

(***************************************************************************)
(* queueHandlers and the log.                                              *)
(***************************************************************************)
Keys(handlers) == {handlers[n].queue : n \in 1..Len(handlers)}

\* HasQueue, were the lookup to find every name
HasQueueAny(handlers, queueName) == TRUE

\* this.queueHandlers.hasOwnProperty(queueName)
HasQueue(handlers, queueName) == queueName \in Keys(handlers)

\* this.queueHandlers[queueName]
HandlerOf(handlers, queueName) ==
    IF queueName \in Keys(handlers)
    THEN handlers[CHOOSE n \in 1..Len(handlers) : handlers[n].queue = queueName].handler
    ELSE Undefined

\* this.queueHandlers[queueName] = handler
SetHandler(handlers, queueName, handler) ==
    IF HasQueue(handlers, queueName)
    THEN [n \in 1..Len(handlers) |->
            IF handlers[n].queue = queueName
            THEN [queue |-> queueName, handler |-> handler]
            ELSE handlers[n]]
    ELSE Append(handlers, [queue |-> queueName, handler |-> handler])

Line(level, msg, arg) == [level |-> level, msg |-> msg, arg |-> arg]

(***************************************************************************)
(* start(): the scan of the resources.                                     *)
(***************************************************************************)
HasResources == Has(service, "resources")

Resources == service.resources

Functions == service.functions

\* ResourceNamed, were the lookup to settle for the first resource whatever
\* its name
ResourceNamedAny(resourceName) ==
    IF Len(Resources) = 0 THEN [found |-> FALSE]
    ELSE [found |-> TRUE, resource |-> Resources[1][2]]

\* resources[resourceName]
ResourceNamed(resourceName) ==
    LET at == {n \in 1..Len(Resources) : Resources[n][1] = resourceName}
    IN  IF at = {} THEN [found |-> FALSE]
        ELSE [found |-> TRUE, resource |-> Resources[CHOOSE n \in at : TRUE][2]]

\* resource.Properties?.hasOwnProperty('QueueName')
HasQueueName(resource) ==
    Has(resource, "Properties") /\ Has(resource.Properties, "QueueName")

\* the position after the scan of the resources
ToFunctions ==
    /\ pc' = "functions"
    /\ i' = i
    /\ j' = 1
    /\ k' = 0

Start ==
    /\ pc = "constructed"
    /\ listening' = listening
    /\ log' = Append(log, Line("notice", "Starting Offline SQS invoke", ""))
    /\ IF ~HasResources
       THEN /\ pc' = "started"
            /\ UNCHANGED <<i, j, k>>
       ELSE IF Len(Resources) = 0
       THEN ToFunctions
       ELSE /\ pc' = "resources"
            /\ i' = 1
            /\ UNCHANGED <<j, k>>
    /\ UNCHANGED <<service, queueHandlers, requests, invocations>>

\* RegisterQueue, were a later declaration of a name to register it again
RegisterQueueAgain(handlers, name, resource) ==
    IF resource.Type # QueueType
    THEN [handlers |-> handlers, lines |-> <<>>]
    ELSE IF ~HasQueueName(resource)
    THEN [handlers |-> handlers,
          lines |-> <<Line("error", "Queue is missing QueueName property", name)>>]
    ELSE [handlers |-> SetHandler(handlers, resource.Properties.QueueName, Null),
          lines |-> <<>>]

\* what one pass of the resource loop does with an entry: the handlers after
\* it and the lines it logs
RegisterQueue(handlers, name, resource) ==
    IF resource.Type # QueueType
    THEN [handlers |-> handlers, lines |-> <<>>]
    ELSE IF ~HasQueueName(resource)
    THEN [handlers |-> handlers,
          lines |-> <<Line("error", "Queue is missing QueueName property", name)>>]
    ELSE IF HasQueue(handlers, resource.Properties.QueueName)
    THEN [handlers |-> handlers,
          lines |-> <<Line("warning", "Found multiple queues with name. Only using first definition.",
                           resource.Properties.QueueName)>>]
    ELSE [handlers |-> SetHandler(handlers, resource.Properties.QueueName, Null),
          lines |-> <<>>]

ScanResource ==
    /\ pc = "resources"
    /\ LET done == RegisterQueue(queueHandlers, Resources[i][1], Resources[i][2])
       IN  /\ queueHandlers' = done.handlers
           /\ log' = log \o done.lines
    /\ IF i = Len(Resources)
       THEN /\ pc' = "functions"
            /\ i' = i + 1
            /\ j' = 1
            /\ k' = 0
       ELSE /\ i' = i + 1
            /\ UNCHANGED <<pc, j, k>>
    /\ UNCHANGED <<service, listening, requests, invocations>>

(***************************************************************************)
(* start(): the scan of the functions.                                     *)
(***************************************************************************)
\* the queue name an sqs.arn refers to, or the error line of a reference
\* that does not resolve
QueueNameOf(arn) ==
    IF Has(arn, "string")
    THEN [resolved |-> TRUE, queueName |-> LastSegment(arn.string, ":")]
    ELSE IF Has(arn, "FnGetAtt") /\ Len(arn.FnGetAtt) = 2 /\ arn.FnGetAtt[2] = "Arn"
    THEN LET resourceName == arn.FnGetAtt[1]
             named == ResourceNamed(resourceName)
         IN  IF ~named.found
             THEN [resolved |-> FALSE,
                   line |-> Line("error", "Unknown resource", resourceName)]
             ELSE IF ~HasQueueName(named.resource)
             THEN [resolved |-> FALSE,
                   line |-> Line("error", "Resource is missing QueueName property", resourceName)]
             ELSE [resolved |-> TRUE, queueName |-> named.resource.Properties.QueueName]
    ELSE [resolved |-> FALSE, line |-> Line("error", "Unknown SQS ARN format", arn)]

\* AssignHandler, were the queue of a binding not to be looked for among the
\* declared ones
AssignHandlerUndeclared(handlers, queueName, name, definition) ==
    IF HasQueue(handlers, queueName) /\ HandlerOf(handlers, queueName) # Null
    THEN [handlers |-> handlers,
          lines |-> <<Line("warning", "Queue already has handler configured. Only using it.",
                           <<queueName, HandlerOf(handlers, queueName)>>)>>]
    ELSE [handlers |-> SetHandler(handlers, queueName, definition.name), lines |-> <<>>]

\* AssignHandler, were a later binding to replace the handler of a queue
AssignHandlerLast(handlers, queueName, name, definition) ==
    IF ~HasQueue(handlers, queueName)
    THEN [handlers |-> handlers,
          lines |-> <<Line("warning", "Unknown SQS queue for function", <<queueName, name>>)>>]
    ELSE [handlers |-> SetHandler(handlers, queueName, definition.name), lines |-> <<>>]

\* the assignment of queueName to the function `name`, whose definition is
\* `definition`: the handlers after it and the lines it logs
AssignHandler(handlers, queueName, name, definition) ==
    IF ~HasQueue(handlers, queueName)
    THEN [handlers |-> handlers,
          lines |-> <<Line("warning", "Unknown SQS queue for function", <<queueName, name>>)>>]
    ELSE IF HandlerOf(handlers, queueName) # Null
    THEN [handlers |-> handlers,
          lines |-> <<Line("warning", "Queue already has handler configured. Only using it.",
                           <<queueName, HandlerOf(handlers, queueName)>>)>>]
    ELSE [handlers |-> SetHandler(handlers, queueName, definition.name), lines |-> <<>>]

\* sqs.arn is undefined when sqs is a string or an object without arn, and
\* undefined.hasOwnProperty throws a TypeError
ArnThrows(event) == Has(event, "sqs") /\ ~Has(event.sqs, "arn")

\* what one pass of the event loop does with an event that does not throw
BindEvent(handlers, name, definition, event) ==
    IF ~Has(event, "sqs")
    THEN [handlers |-> handlers, lines |-> <<>>]
    ELSE LET ref == QueueNameOf(event.sqs.arn)
         IN  IF ~ref.resolved
             THEN [handlers |-> handlers, lines |-> <<ref.line>>]
             ELSE AssignHandler(handlers, ref.queueName, name, definition)

\* `for (let event of definition.events)` throws a TypeError when events is
\* undefined
EventsThrow(definition) == ~Has(definition, "events")

\* the exception leaves start() and the hook that called it.  What the
\* caller of the hook does with it is not the plugin's: the process ends
\* ("exited"), or it goes on with the listener that startHttp() has already
\* created ("aborted")
Abort ==
    /\ pc' \in {"aborted", "exited"}
    /\ UNCHANGED <<i, j, k, queueHandlers, log>>

NextFunction ==
    /\ j' = j + 1
    /\ k' = 0
    /\ UNCHANGED <<pc, i>>

\* the head of the function loop: the entry at j
ScanFunction ==
    /\ pc = "functions"
    /\ j <= Len(Functions)
    /\ k = 0
    /\ LET definition == Functions[j][2]
       IN  IF ~Has(definition, "name")
           THEN NextFunction /\ UNCHANGED <<queueHandlers, log>>
           ELSE IF EventsThrow(definition)
           THEN Abort
           ELSE IF Len(definition.events) = 0
           THEN NextFunction /\ UNCHANGED <<queueHandlers, log>>
           ELSE /\ k' = 1
                /\ UNCHANGED <<pc, i, j, queueHandlers, log>>
    /\ UNCHANGED <<service, listening, requests, invocations>>

\* one pass of the event loop: the event at k of the function at j
ScanEvent ==
    /\ pc = "functions"
    /\ j <= Len(Functions)
    /\ k >= 1
    /\ LET name == Functions[j][1]
           definition == Functions[j][2]
           event == definition.events[k]
       IN  IF ArnThrows(event)
           THEN Abort
           ELSE LET done == BindEvent(queueHandlers, name, definition, event)
                IN  /\ queueHandlers' = done.handlers
                    /\ log' = log \o done.lines
                    /\ IF k = Len(definition.events)
                       THEN NextFunction
                       ELSE /\ k' = k + 1
                            /\ UNCHANGED <<pc, i, j>>
    /\ UNCHANGED <<service, listening, requests, invocations>>

\* the lines that end start()
SummaryLines(handlers) ==
    <<Line("notice", "Queues available for local testing:", "")>>
    \o [n \in 1..Len(handlers) |->
            Line("notice", "* queue: handler", <<handlers[n].queue, handlers[n].handler>>)]

Summary ==
    /\ pc = "functions"
    /\ j > Len(Functions)
    /\ log' = log \o SummaryLines(queueHandlers)
    /\ pc' = "started"
    /\ UNCHANGED <<service, queueHandlers, i, j, k, listening, requests, invocations>>

(***************************************************************************)
(* startHttp(): the listener and the route.                                *)
(***************************************************************************)
\* the process runs and start() is over, returned or left by an exception:
\* the event loop takes the next callback only then
Idle == pc \in {"started", "aborted"}

\* the callback of this.server.listen(3003, ...)
Listen ==
    /\ Idle
    /\ ~listening
    /\ listening' = TRUE
    /\ log' = Append(log, Line("notice", "Offline SQS invoke listening on http://localhost:3003", ""))
    /\ UNCHANGED <<service, queueHandlers, pc, i, j, k, requests, invocations>>

SendMessageResponse == "<SendMessageResponse></SendMessageResponse>"

\* response.status(status).send(body)
Responded(body, status, sent) ==
    [body |-> body, state |-> "responded", response |-> [status |-> status, body |-> sent]]

\* response.set('Content-Type', 'text/xml'); response.send(...)
Acknowledged(body) ==
    [body |-> body, state |-> "responded",
     response |-> [status |-> 200, body |-> SendMessageResponse, contentType |-> "text/xml"]]

ArnPrefix == <<"arn", ":", "aws", ":", "sqs", ":", "localhost", ":", "000000000000", ":">>

\* Payload, were the source ARN to be the queue name alone
PayloadBare(messageBody, queueName) ==
    [Records |-> <<
        [messageId |-> "00000000-0000-0000-0000-000000000000",
         receiptHandle |-> "",
         body |-> messageBody,
         attributes |-> "{}",
         messageAttributes |-> "{}",
         md5OfBody |-> "",
         eventSource |-> "aws:sqs",
         eventSourceARN |-> queueName,
         awsRegion |-> "localhost"]>>]

\* the payload onMessage builds for a message
Payload(messageBody, queueName) ==
    [Records |-> <<
        [messageId |-> "00000000-0000-0000-0000-000000000000",
         receiptHandle |-> "",
         body |-> messageBody,
         attributes |-> "{}",
         messageAttributes |-> "{}",
         md5OfBody |-> "",
         eventSource |-> "aws:sqs",
         eventSourceARN |-> ArnPrefix \o queueName,
         awsRegion |-> "localhost"]>>]

\* Looked, were the lookup of a name to create its entry
LookedCreating(handlers, queueName) ==
    IF HasQueue(handlers, queueName)
    THEN handlers
    ELSE Append(handlers, [queue |-> queueName, handler |-> Null])

\* this.queueHandlers after onMessage has looked queueName up in it:
\* hasOwnProperty and the reads of this.queueHandlers[queueName] leave it as
\* it was
Looked(handlers, queueName) == handlers

\* Dispatch, were the message body to be checked before the queue url
DispatchBodyFirst(handlers, body) ==
    IF ~Has(body, "MessageBody") \/ ~Truthy(body.MessageBody)
    THEN [sent |-> FALSE, handlers |-> handlers,
          lines |-> <<Line("warning", "Missing MessageBody in SQS payload", "")>>]
    ELSE IF ~Has(body, "QueueUrl") \/ ~Truthy(body.QueueUrl)
    THEN [sent |-> FALSE, handlers |-> handlers,
          lines |-> <<Line("warning", "Missing QueueURL in SQS payload", "")>>]
    ELSE LET queueName == LastSegment(body.QueueUrl, "/")
         IN  IF ~Truthy(queueName)
             THEN [sent |-> FALSE, handlers |-> handlers,
                   lines |-> <<Line("warning", "Missing queue name in queue url", body.QueueUrl)>>]
             ELSE IF ~HasQueue(handlers, queueName)
             THEN [sent |-> FALSE, handlers |-> Looked(handlers, queueName),
                   lines |-> <<Line("warning", "Unknown queue name", queueName)>>]
             ELSE [sent |-> TRUE, handlers |-> Looked(handlers, queueName),
                   lines |-> <<Line("notice", "Invoking function from queue",
                                    <<HandlerOf(handlers, queueName), queueName>>)>>,
                   command |-> [FunctionName |-> HandlerOf(handlers, queueName),
                                Payload |-> Payload(body.MessageBody, queueName)]]

\* onMessage(body) up to its call of this.lambdaClient.send: the command it
\* sends, or the line it logs before it returns false, and this.queueHandlers
\* after it
Dispatch(handlers, body) ==
    IF ~Has(body, "QueueUrl") \/ ~Truthy(body.QueueUrl)
    THEN [sent |-> FALSE, handlers |-> handlers,
          lines |-> <<Line("warning", "Missing QueueURL in SQS payload", "")>>]
    ELSE IF ~Has(body, "MessageBody") \/ ~Truthy(body.MessageBody)
    THEN [sent |-> FALSE, handlers |-> handlers,
          lines |-> <<Line("warning", "Missing MessageBody in SQS payload", "")>>]
    ELSE LET queueName == LastSegment(body.QueueUrl, "/")
         IN  IF ~Truthy(queueName)
             THEN [sent |-> FALSE, handlers |-> handlers,
                   lines |-> <<Line("warning", "Missing queue name in queue url", body.QueueUrl)>>]
             ELSE IF ~HasQueue(handlers, queueName)
             THEN [sent |-> FALSE, handlers |-> Looked(handlers, queueName),
                   lines |-> <<Line("warning", "Unknown queue name", queueName)>>]
             ELSE [sent |-> TRUE, handlers |-> Looked(handlers, queueName),
                   lines |-> <<Line("notice", "Invoking function from queue",
                                    <<HandlerOf(handlers, queueName), queueName>>)>>,
                   command |-> [FunctionName |-> HandlerOf(handlers, queueName),
                                Payload |-> Payload(body.MessageBody, queueName)]]

\* CheckAction, were every action that is present to be accepted
CheckActionPresent(body) ==
    IF ~Has(body, "Action") \/ ~Truthy(body.Action)
    THEN [accepted |-> FALSE, reply |-> "Missing Action query parameter",
          line |-> Line("warning", "Received SQS request without Action", "")]
    ELSE [accepted |-> TRUE]

\* the route's checks of request.body.Action: the reply and the line of an
\* action it rejects
CheckAction(body) ==
    IF ~Has(body, "Action") \/ ~Truthy(body.Action)
    THEN [accepted |-> FALSE, reply |-> "Missing Action query parameter",
          line |-> Line("warning", "Received SQS request without Action", "")]
    ELSE IF body.Action # <<"SendMessage">>
    THEN [accepted |-> FALSE, reply |-> "Only SendMessage actions are supported",
          line |-> Line("warning", "Received unsupported SQS action", body.Action)]
    ELSE [accepted |-> TRUE]

\* Accepting, were the listener to take one request at a time and to hold the
\* next until the callback of the last has returned
AcceptingInTurn == listening /\ \A r \in 1..Len(requests) : requests[r].state # "awaiting"

\* the listener takes a request whenever the event loop is free: callbacks
\* suspended at an await do not hold it
Accepting == listening

\* Awaiting, were the route not to wait for onMessage: the promise it holds
\* is truthy and the acknowledgement is sent at once
AwaitingAnswered(body) == Acknowledged(body)

\* the request while the route is suspended at `yield this.onMessage(...)`,
\* itself suspended at `yield this.lambdaClient.send(command)`: no response yet
Awaiting(body) == [body |-> body, state |-> "awaiting"]

\* the listener accepts a request and the route's callback runs up to its
\* first await that suspends it
Receive(body) ==
    /\ Idle
    /\ Accepting
    /\ Len(requests) < MaxRequests
    /\ LET checked == CheckAction(body)
       IN  IF ~checked.accepted
           THEN /\ log' = Append(log, checked.line)
                /\ requests' = Append(requests, Responded(body, 400, checked.reply))
                /\ UNCHANGED <<invocations, queueHandlers>>
           ELSE LET call == Dispatch(queueHandlers, body)
                IN  /\ log' = log \o call.lines
                    /\ queueHandlers' = call.handlers
                    /\ IF call.sent
                       THEN /\ requests' = Append(requests, Awaiting(body))
                            /\ invocations' = Append(invocations,
                                   [request |-> Len(requests) + 1, command |-> call.command])
                       ELSE /\ requests' = Append(requests, Responded(body, 400, ""))
                            /\ UNCHANGED invocations
    /\ UNCHANGED <<service, pc, i, j, k, listening>>

\* the statuses this.lambdaClient.send resolves with
StatusCodes == {200, 500}

\* the invocation of request r
InvocationOf(r) == CHOOSE n \in 1..Len(invocations) : invocations[n].request = r

\* Settled, were a failed invocation not to be logged
SettledQuietly(body, status) ==
    IF status # 200
    THEN [request |-> Responded(body, 400, ""), lines |-> <<>>]
    ELSE [request |-> Acknowledged(body), lines |-> <<>>]

\* the rest of onMessage and of the route once send has resolved with
\* `status`: the request answered and the lines logged
Settled(body, status) ==
    IF status # 200
    THEN [request |-> Responded(body, 400, ""),
          lines |-> <<Line("error", "Error while invoking Lambda", "response")>>]
    ELSE [request |-> Acknowledged(body), lines |-> <<>>]

\* this.lambdaClient.send resolves
InvokeReturns(r, status) ==
    /\ Idle
    /\ r \in 1..Len(requests)
    /\ requests[r].state = "awaiting"
    /\ LET done == Settled(requests[r].body, status)
       IN  /\ log' = log \o done.lines
           /\ requests' = [requests EXCEPT ![r] = done.request]
    /\ invocations' = [invocations EXCEPT ![InvocationOf(r)] =
           [request |-> @.request, command |-> @.command, response |-> [StatusCode |-> status]]]
    /\ UNCHANGED <<service, queueHandlers, pc, i, j, k, listening>>

\* what becomes of the route's callback when its promise rejects: nothing
\* catches the rejection in the plugin, so the request is left unanswered, or
\* the framework's error handler answers it with status 500, or the process
\* ends on the unhandled rejection
Rejections == {"unanswered", "status500", "exit"}

\* this.lambdaClient.send rejects
InvokeThrows(r, rejection) ==
    /\ Idle
    /\ r \in 1..Len(requests)
    /\ requests[r].state = "awaiting"
    /\ CASE rejection = "unanswered" ->
              /\ requests' = [requests EXCEPT ![r] = [body |-> @.body, state |-> "rejected"]]
              /\ pc' = pc
         [] rejection = "status500" ->
              /\ requests' = [requests EXCEPT ![r] =
                     [body |-> @.body, state |-> "rejected",
                      response |-> [status |-> 500, body |-> "Internal Server Error"]]]
              /\ pc' = pc
         [] rejection = "exit" ->
              /\ requests' = [requests EXCEPT ![r] = [body |-> @.body, state |-> "rejected"]]
              /\ pc' = "exited"
    /\ invocations' = [invocations EXCEPT ![InvocationOf(r)] =
           [request |-> @.request, command |-> @.command, error |-> "rejected"]]
    /\ UNCHANGED <<service, queueHandlers, i, j, k, listening, log>>

(***************************************************************************)
(* The requests the listener is sent.                                      *)
(***************************************************************************)
Actions == {<<>>, <<"SendMessage">>, <<"ReceiveMessage">>}

QueueUrls == {<<"u", "/", "a">>, <<"u", "/", "b">>, <<"u", "/">>, <<"a">>}

MessageBodies == {<<>>, <<"hello">>}

Bodies ==
    [Action : Actions, QueueUrl : QueueUrls, MessageBody : MessageBodies]
    \cup [QueueUrl : QueueUrls, MessageBody : MessageBodies]
    \cup [Action : Actions, MessageBody : MessageBodies]
    \cup [Action : Actions, QueueUrl : QueueUrls]

(***************************************************************************)
(* The configurations the gateway is run with.                             *)
(***************************************************************************)
QueueResource(n) == [Type |-> QueueType, Properties |-> [QueueName |-> n]]

Binding(key, arn) == <<key, [name |-> key, events |-> <<[sqs |-> [arn |-> arn]]>>]>>

ServedServices ==
    {[resources |-> <<(<<"R1", QueueResource(<<"a">>)>>)>>,
      functions |-> <<Binding("F1", [string |-> <<"x", ":", "a">>])>>],
     [resources |-> <<(<<"R1", QueueResource(<<"a">>)>>), (<<"R2", QueueResource(<<"b">>)>>)>>,
      functions |-> <<Binding("F1", [FnGetAtt |-> <<"R2", "Arn">>]),
                      Binding("F2", [FnGetAtt |-> <<"R2", "Arn">>])>>],
     [functions |-> <<Binding("F1", [string |-> <<"x", ":", "a">>])>>],
     [resources |-> <<(<<"R1", QueueResource(<<"a">>)>>), (<<"R2", QueueResource(<<"b">>)>>)>>,
      functions |-> <<Binding("F1", [string |-> <<"x", ":", "b">>]),
                      <<"F2", [name |-> "F2",
                               events |-> <<[sqs |-> [string |-> <<"x", ":", "a">>]]>>]>>,
                      Binding("F3", [FnGetAtt |-> <<"R1", "Arn">>])>>]}

Blank ==
    /\ queueHandlers = <<>>
    /\ pc = "constructed"
    /\ i = 0
    /\ j = 0
    /\ k = 0
    /\ listening = FALSE
    /\ requests = <<>>
    /\ invocations = <<>>
    /\ log = <<>>

\* the plugin after its constructor, before the hook calls start()
Init == service \in ServedServices /\ Blank

InitResolve == IsService(service) /\ Blank

NextResolve == Start \/ ScanResource \/ ScanFunction \/ ScanEvent \/ Summary

NextServe ==
    \/ Listen
    \/ \E body \in Bodies : Receive(body)
    \/ \E r \in 1..MaxRequests, status \in StatusCodes : InvokeReturns(r, status)
    \/ \E r \in 1..MaxRequests, rejection \in Rejections : InvokeThrows(r, rejection)

Next == NextResolve \/ NextServe

\* the plugin from its construction on: start(), then the requests
Spec == Init /\ [][Next]_vars

\* start() alone, over every configuration within the bounds
SpecResolve == InitResolve /\ [][NextResolve]_vars

(***************************************************************************)
(* What the properties below speak of.                                     *)
(***************************************************************************)
Range(s) == {s[n] : n \in 1..Len(s)}

\* q is what follows the last sep of s, or all of s when s holds no sep
IsLastSegment(s, sep, q) ==
    /\ sep \notin Range(q)
    /\ \E n \in 0..Len(s) :
          /\ SubSeq(s, n + 1, Len(s)) = q
          /\ n = 0 \/ s[n] = sep

\* the invocation calls made for request r
CallsOf(r) == {n \in 1..Len(invocations) : invocations[n].request = r}

\* request r passed the checks of its Action
IsSendMessage(body) == Has(body, "Action") /\ body.Action = <<"SendMessage">>

\* a SendMessage with a queue url and a message body, neither empty
HasMessage(body) ==
    /\ IsSendMessage(body)
    /\ Has(body, "QueueUrl") /\ body.QueueUrl # <<>>
    /\ Has(body, "MessageBody") /\ body.MessageBody # <<>>

\* the resources that declare a queue with a name, among the first n
NamedQueues(n) ==
    {m \in 1..n : /\ Resources[m][2].Type = QueueType
                  /\ Has(Resources[m][2], "Properties")
                  /\ Has(Resources[m][2].Properties, "QueueName")}

QueueNameAt(m) == Resources[m][2].Properties.QueueName

\* the first declaration of each queue name, among the first n resources
FirstDeclarations(n) ==
    {m \in NamedQueues(n) : \A l \in NamedQueues(n) : l < m => QueueNameAt(l) # QueueNameAt(m)}

DeclaredQueueNames ==
    IF HasResources THEN {QueueNameAt(m) : m \in NamedQueues(Len(Resources))} ELSE {}

\* the number of resources the resource loop has been through
ScannedResources ==
    IF ~HasResources \/ pc = "constructed" THEN 0
    ELSE IF pc = "resources" THEN i - 1
    ELSE Len(Resources)

\* the sqs.arn `arn` refers to the queue named q
RefersTo(arn, q) ==
    \/ Has(arn, "string") /\ IsLastSegment(arn.string, ":", q)
    \/ /\ Has(arn, "FnGetAtt")
       /\ Len(arn.FnGetAtt) = 2
       /\ arn.FnGetAtt[2] = "Arn"
       /\ \E m \in 1..Len(Resources) :
             /\ Resources[m][1] = arn.FnGetAtt[1]
             /\ Has(Resources[m][2], "Properties")
             /\ Has(Resources[m][2].Properties, "QueueName")
             /\ Resources[m][2].Properties.QueueName = q

\* the bindings of named functions to the queue q: <<function, event>>
BindingsTo(q) ==
    UNION {{<<m, n>> : n \in {e \in 1..Len(Functions[m][2].events) :
                                /\ Has(Functions[m][2].events[e], "sqs")
                                /\ Has(Functions[m][2].events[e].sqs, "arn")
                                /\ RefersTo(Functions[m][2].events[e].sqs.arn, q)}} :
           m \in {f \in 1..Len(Functions) :
                     Has(Functions[f][2], "name") /\ Has(Functions[f][2], "events")}}

Before(p, o) == p[1] < o[1] \/ (p[1] = o[1] /\ p[2] <= o[2])

\* the function loop has been through the event at p
Scanned(p) == p[1] < j \/ (p[1] = j /\ p[2] < k)

\* the name of the first function among the bindings S, Null when there is none
FirstBinder(S) ==
    IF S = {} THEN Null
    ELSE Functions[(CHOOSE p \in S : \A o \in S : Before(p, o))[1]][2].name

ErrorLines == {n \in 1..Len(log) : log[n].level = "error"}

(***************************************************************************)
(* C1: a SendMessage with a non-empty MessageBody b and a QueueUrl whose   *)
(* final '/'-segment is a queue q with an assigned handler h makes exactly *)
(* one invocation call, to h, with Records[0].body = b and                 *)
(* Records[0].eventSourceARN = arn:aws:sqs:localhost:000000000000:q; when  *)
(* the call returns status 200 the request is answered 200 with the body   *)
(* <SendMessageResponse></SendMessageResponse> and content type text/xml.  *)
(***************************************************************************)
SentTo(body, q) ==
    /\ HasMessage(body)
    /\ "/" \in Range(body.QueueUrl)
    /\ IsLastSegment(body.QueueUrl, "/", q)
    /\ q \in Keys(queueHandlers)
    /\ HandlerOf(queueHandlers, q) # Null

C1_SendMessageInvokesHandler ==
    \A r \in 1..Len(requests) : \A q \in Keys(queueHandlers) :
        SentTo(requests[r].body, q) =>
            /\ Cardinality(CallsOf(r)) = 1
            /\ \A n \in CallsOf(r) :
                  /\ invocations[n].command.FunctionName = HandlerOf(queueHandlers, q)
                  /\ Len(invocations[n].command.Payload.Records) = 1
                  /\ invocations[n].command.Payload.Records[1].body = requests[r].body.MessageBody
                  /\ invocations[n].command.Payload.Records[1].eventSourceARN =
                        <<"arn", ":", "aws", ":", "sqs", ":", "localhost", ":", "000000000000", ":">> \o q
                  /\ (Has(invocations[n], "response") /\ invocations[n].response.StatusCode = 200) =>
                        /\ requests[r].state = "responded"
                        /\ requests[r].response =
                              [status |-> 200,
                               body |-> "<SendMessageResponse></SendMessageResponse>",
                               contentType |-> "text/xml"]

C1_Witness ==
    \E r \in 1..Len(requests) : \E q \in Keys(queueHandlers) :
        /\ SentTo(requests[r].body, q)
        /\ \E n \in CallsOf(r) :
              Has(invocations[n], "response") /\ invocations[n].response.StatusCode = 200

(***************************************************************************)
(* C2: first-bound-wins.  At every point of the function scan, and after   *)
(* it, the handler of each queue is the name of the first named function,  *)
(* in declaration order, among the bindings scanned so far that resolve to *)
(* the queue, and it is unassigned when there is none: a binding to an     *)
(* unassigned queue assigns it, a later one leaves the assignment alone.   *)
(***************************************************************************)
C2_FirstBoundWins ==
    \A a \in 1..Len(queueHandlers) :
        queueHandlers[a].handler =
            FirstBinder({p \in BindingsTo(queueHandlers[a].queue) : Scanned(p)})

C2_Witness ==
    /\ pc = "started"
    /\ \E a \in 1..Len(queueHandlers) :
          /\ queueHandlers[a].handler # Null
          /\ \E p, o \in BindingsTo(queueHandlers[a].queue) : p[1] # o[1]

(***************************************************************************)
(* C3: when the invocation call throws, the request is answered with HTTP  *)
(* 400 and the error is logged, as for a status other than 200.            *)
(***************************************************************************)
C3_ThrownInvocationAnswered400 ==
    \A n \in 1..Len(invocations) :
        Has(invocations[n], "error") =>
            /\ requests[invocations[n].request].state = "responded"
            /\ requests[invocations[n].request].response.status = 400
            /\ ErrorLines # {}

(***************************************************************************)
(* C4: after a request that failed (a 400 answer, or an invocation that    *)
(* threw) the listener is still running and serves the later requests.     *)
(***************************************************************************)
Failed(r) ==
    \/ requests[r].state = "rejected"
    \/ requests[r].state = "responded" /\ requests[r].response.status = 400

C4_ListenerSurvivesFailures ==
    (\E r \in 1..Len(requests) : Failed(r)) => (pc = "started" /\ listening)

(***************************************************************************)
(* C5: a SendMessage whose derived queue name is not a key of the handler  *)
(* map is answered with HTTP 400 and makes no invocation call, and the     *)
(* lookup creates no entry: every key is the name of a declared queue.     *)
(***************************************************************************)
ToUnknownQueue(body) ==
    /\ HasMessage(body)
    /\ LastSegment(body.QueueUrl, "/") # <<>>
    /\ LastSegment(body.QueueUrl, "/") \notin Keys(queueHandlers)

C5_UnknownQueueRejected ==
    /\ Keys(queueHandlers) \subseteq DeclaredQueueNames
    /\ \A r \in 1..Len(requests) :
          ToUnknownQueue(requests[r].body) =>
              /\ requests[r].state = "responded"
              /\ requests[r].response.status = 400
              /\ CallsOf(r) = {}

C5_Witness ==
    /\ Keys(queueHandlers) # {}
    /\ \E r \in 1..Len(requests) : ToUnknownQueue(requests[r].body)

(***************************************************************************)
(* C6: a request whose Action is missing, empty or anything other than     *)
(* SendMessage is answered with HTTP 400 and makes no invocation call,     *)
(* whatever its QueueUrl and MessageBody are.                              *)
(***************************************************************************)
C6_OtherActionsRejected ==
    \A r \in 1..Len(requests) :
        ~IsSendMessage(requests[r].body) =>
            /\ requests[r].state = "responded"
            /\ requests[r].response.status = 400
            /\ CallsOf(r) = {}

C6_Witness ==
    \E r \in 1..Len(requests) :
        /\ Has(requests[r].body, "Action")
        /\ requests[r].body.Action = <<"ReceiveMessage">>
        /\ Has(requests[r].body, "QueueUrl")
        /\ Has(requests[r].body, "MessageBody")
        /\ requests[r].body.MessageBody # <<>>
        /\ LastSegment(requests[r].body.QueueUrl, "/") \in Keys(queueHandlers)
        /\ HandlerOf(queueHandlers, LastSegment(requests[r].body.QueueUrl, "/")) # Null

(***************************************************************************)
(* C7: when the invocation call of a request returns a status other than   *)
(* 200, the request is answered with HTTP 400 and an empty body, one error *)
(* line is logged for it, and the call is the only one of the request.     *)
(***************************************************************************)
FailedCalls ==
    {n \in 1..Len(invocations) :
        Has(invocations[n], "response") /\ invocations[n].response.StatusCode # 200}

C7_FailedInvocationAnswered400 ==
    /\ \A n \in FailedCalls :
          /\ requests[invocations[n].request].state = "responded"
          /\ requests[invocations[n].request].response = [status |-> 400, body |-> ""]
          /\ CallsOf(invocations[n].request) = {n}
    /\ Cardinality({n \in ErrorLines : log[n].msg = "Error while invoking Lambda"})
           = Cardinality(FailedCalls)

C7_Witness == FailedCalls # {}

(***************************************************************************)
(* C8: the handler map holds one entry for each queue name declared so     *)
(* far, in the order of the first declarations; every later declaration of *)
(* a name logs one warning and changes nothing, so that the entries are    *)
(* all unassigned until the function scan.                                 *)
(***************************************************************************)
DuplicateWarnings ==
    {n \in 1..Len(log) :
        log[n].msg = "Found multiple queues with name. Only using first definition."}

C8_FirstDeclarationRegisters ==
    LET first == FirstDeclarations(ScannedResources)
    IN  /\ Len(queueHandlers) = Cardinality(first)
        /\ \A m \in first :
              queueHandlers[Cardinality({l \in first : l <= m})].queue = QueueNameAt(m)
        /\ \A n \in DuplicateWarnings : log[n].level = "warning"
        /\ Cardinality(DuplicateWarnings)
               = Cardinality(NamedQueues(ScannedResources)) - Cardinality(first)
        /\ pc = "resources" => \A a \in 1..Len(queueHandlers) : queueHandlers[a].handler = Null

C8_Witness ==
    /\ pc = "started"
    /\ HasResources
    /\ \E m, l \in NamedQueues(Len(Resources)) : m < l /\ QueueNameAt(m) = QueueNameAt(l)
    /\ \E a \in 1..Len(queueHandlers) : queueHandlers[a].handler # Null

(***************************************************************************)
(* C9: the listener accepts no request before the handler map is           *)
(* completely built: whenever a request has been accepted, start() has     *)
(* returned, the keys of the map are the declared queue names and its      *)
(* handlers the first binders.                                             *)
(***************************************************************************)
Complete ==
    HasResources =>
        /\ Keys(queueHandlers) = DeclaredQueueNames
        /\ \A a \in 1..Len(queueHandlers) :
              queueHandlers[a].handler = FirstBinder(BindingsTo(queueHandlers[a].queue))

StartReturned ==
    \/ pc = "started"
    \/ pc = "exited" /\ (~HasResources \/ j > Len(Functions))

C9_HandlersBuiltBeforeRequests ==
    requests # <<>> => (StartReturned /\ Complete)

(***************************************************************************)
(* C10: once start() has returned, no step changes the handler map: not    *)
(* its keys, not the handler of any queue.                                 *)
(***************************************************************************)
C10_HandlersFrozen == [][pc = "started" => queueHandlers' = queueHandlers]_vars

C10_Witness ==
    /\ pc = "started"
    /\ \E r \in 1..Len(requests) : ToUnknownQueue(requests[r].body)
    /\ FailedCalls # {}

(***************************************************************************)
(* C11: a request that passed the Action checks is answered only after its *)
(* Dispatch step is over: after onMessage returned false without a call,   *)
(* or after the request's invocation call completed, and then with the     *)
(* answer of that result; and a request is answered at most once: the      *)
(* response it has is never replaced by another.                           *)
(***************************************************************************)
Answered(r) == Has(requests[r], "response")

CallCompleted(n) == Has(invocations[n], "response") \/ Has(invocations[n], "error")

AnsweredAfterDispatch ==
    \A r \in 1..Len(requests) :
        (IsSendMessage(requests[r].body) /\ Answered(r)) =>
            /\ \A n \in CallsOf(r) : CallCompleted(n)
            /\ CallsOf(r) = {} => requests[r].response = [status |-> 400, body |-> ""]
            /\ requests[r].response.status = 200 =>
                  \E n \in CallsOf(r) :
                      Has(invocations[n], "response") /\ invocations[n].response.StatusCode = 200

AnsweredOnce ==
    \A r \in 1..Len(requests) :
        Answered(r) => (r <= Len(requests') /\ requests'[r] = requests[r])

C11_ResponseAfterDispatch == []AnsweredAfterDispatch /\ [][AnsweredOnce]_vars

C11_Witness ==
    /\ \E r \in 1..Len(requests) :
          /\ IsSendMessage(requests[r].body)
          /\ Answered(r)
          /\ \E n \in CallsOf(r) : Has(invocations[n], "response")
    /\ \E r \in 1..Len(requests) :
          IsSendMessage(requests[r].body) /\ Answered(r) /\ CallsOf(r) = {}

(***************************************************************************)
(* C12: a malformed entry never aborts the scan.  Whatever the             *)
(* configuration holds (a queue without QueueName, a named function        *)
(* without events, a queue trigger without a reference or with one of an   *)
(* unknown shape), start() is not left by an exception; when it has        *)
(* returned, every malformed entry has logged an error and the other       *)
(* queues and bindings are resolved as without it.                         *)
(***************************************************************************)
\* the named functions without an events list
WithoutEvents ==
    {f \in 1..Len(Functions) :
        Has(Functions[f][2], "name") /\ ~Has(Functions[f][2], "events")}

\* the queue triggers of named functions that hold no reference
WithoutReference ==
    UNION {{<<f, e>> : e \in {n \in 1..Len(Functions[f][2].events) :
                                 /\ Has(Functions[f][2].events[n], "sqs")
                                 /\ ~Has(Functions[f][2].events[n].sqs, "arn")}} :
           f \in {m \in 1..Len(Functions) :
                     Has(Functions[m][2], "name") /\ Has(Functions[m][2], "events")}}

C12_MalformedEntriesNeverAbort ==
    /\ pc \notin {"aborted", "exited"}
    /\ (pc = "started" /\ HasResources) =>
          /\ Complete
          /\ Cardinality(ErrorLines) >= Cardinality(WithoutEvents) + Cardinality(WithoutReference)

(***************************************************************************)
(* C13: the pass of the event loop over a queue trigger whose reference is *)
(* Fn::GetAtt [resource, 'Arn'].  When the resource is not declared, or is *)
(* declared without QueueName, the pass logs one error and changes no      *)
(* handler.  When it is declared with a QueueName, the pass is that of a   *)
(* binding to this name: a warning and no change when the name is not a    *)
(* key or the queue has a handler already, the assignment of the function  *)
(* otherwise.                                                              *)
(***************************************************************************)
\* the resources with a QueueName property, whatever their type
NamedOnes ==
    {m \in 1..Len(Resources) :
        Has(Resources[m][2], "Properties") /\ Has(Resources[m][2].Properties, "QueueName")}

\* the function loop is at the event k of the function j
AtEvent == pc = "functions" /\ j <= Len(Functions) /\ k >= 1

CurrentEvent == Functions[j][2].events[k]

HasReference(event) == Has(event, "sqs") /\ Has(event.sqs, "arn")

IsGetAttArn(arn) ==
    Has(arn, "FnGetAtt") /\ Len(arn.FnGetAtt) = 2 /\ arn.FnGetAtt[2] = "Arn"

\* the resources declared under resourceName
Targets(resourceName) == {m \in 1..Len(Resources) : Resources[m][1] = resourceName}

Unchanged(line) == queueHandlers' = queueHandlers /\ log' = Append(log, line)

\* the pass binds the current function to the name q
BoundTo(q) ==
    IF q \notin Keys(queueHandlers)
    THEN Unchanged(Line("warning", "Unknown SQS queue for function", <<q, Functions[j][1]>>))
    ELSE IF \E a \in 1..Len(queueHandlers) :
                queueHandlers[a].queue = q /\ queueHandlers[a].handler # Null
    THEN /\ queueHandlers' = queueHandlers
         /\ Len(log') = Len(log) + 1
         /\ log'[Len(log')].level = "warning"
         /\ log'[Len(log')].msg = "Queue already has handler configured. Only using it."
    ELSE /\ log' = log
         /\ Len(queueHandlers') = Len(queueHandlers)
         /\ \A a \in 1..Len(queueHandlers) :
               queueHandlers'[a] =
                   IF queueHandlers[a].queue = q
                   THEN [queue |-> q, handler |-> Functions[j][2].name]
                   ELSE queueHandlers[a]

IndirectReferenceResolved ==
    (AtEvent /\ HasReference(CurrentEvent) /\ IsGetAttArn(CurrentEvent.sqs.arn)) =>
        LET resourceName == CurrentEvent.sqs.arn.FnGetAtt[1]
            at == Targets(resourceName)
        IN  IF at = {}
            THEN Unchanged(Line("error", "Unknown resource", resourceName))
            ELSE \A m \in at :
                    IF m \notin NamedOnes
                    THEN Unchanged(Line("error", "Resource is missing QueueName property",
                                        resourceName))
                    ELSE BoundTo(Resources[m][2].Properties.QueueName)

C13_IndirectReference == [][IndirectReferenceResolved]_vars

C13_Witness ==
    /\ pc = "started"
    /\ \E n \in ErrorLines : log[n].msg = "Unknown resource"
    /\ \E a \in 1..Len(queueHandlers) :
          /\ queueHandlers[a].handler # Null
          /\ \A p \in BindingsTo(queueHandlers[a].queue) :
                Has(Functions[p[1]][2].events[p[2]].sqs.arn, "FnGetAtt")

(***************************************************************************)
(* C14: requests do not wait for each other.  While the invocation call of *)
(* a request is pending, the listener takes any further request and        *)
(* answers it or sends its call at once, and the call of every other       *)
(* pending request can return; and the answer of a request is the one its  *)
(* own fields, the handler map and the result of its own call determine,   *)
(* whatever the other requests and the order of the steps are.             *)
(***************************************************************************)
Pending(r) == requests[r].state = "awaiting"

NotHeldByPending ==
    \A r \in 1..Len(requests) :
        (Pending(r) /\ pc \in {"started", "aborted"} /\ listening) =>
            /\ Len(requests) < MaxRequests => \A body \in Bodies : ENABLED Receive(body)
            /\ \A o \in 1..Len(requests) :
                  (o # r /\ Pending(o)) => \A status \in {200, 500} : ENABLED InvokeReturns(o, status)

\* the request is refused before any call is made
Refused(body) ==
    \/ ~Has(body, "Action") \/ body.Action # <<"SendMessage">>
    \/ ~Has(body, "QueueUrl") \/ body.QueueUrl = <<>>
    \/ ~Has(body, "MessageBody") \/ body.MessageBody = <<>>
    \/ \A q \in Keys(queueHandlers) : ~IsLastSegment(body.QueueUrl, "/", q)

OwnAnswer ==
    \A r \in 1..Len(requests) :
        IF Refused(requests[r].body)
        THEN /\ CallsOf(r) = {}
             /\ Answered(r)
             /\ requests[r].response.status = 400
        ELSE /\ Cardinality(CallsOf(r)) = 1
             /\ \A n \in CallsOf(r) :
                   /\ ~CallCompleted(n) => ~Answered(r)
                   /\ Has(invocations[n], "response") =>
                         /\ Answered(r)
                         /\ requests[r].response.status =
                                IF invocations[n].response.StatusCode = 200 THEN 200 ELSE 400
                   /\ Has(invocations[n], "error") =>
                         (Answered(r) => requests[r].response.status = 500)

C14_RequestsIndependent == NotHeldByPending /\ OwnAnswer

C14_Witness ==
    /\ Len(requests) >= 2
    /\ Pending(1)
    /\ Answered(2)
    /\ requests[2].response.status = 200

(***************************************************************************)
(* C15: in every state of the resolution and after it, every key of the    *)
(* handler map is the QueueName of a declared resource of type             *)
(* AWS::SQS::Queue, and every handler that is not null is the name of a    *)
(* declared function with a queue trigger that resolves to the key; every  *)
(* binding scanned that resolves to a name that is not a key has logged    *)
(* one warning, and has added no key.                                      *)
(***************************************************************************)
UnknownQueueWarnings ==
    {n \in 1..Len(log) :
        log[n].level = "warning" /\ log[n].msg = "Unknown SQS queue for function"}

\* the bindings of named functions that resolve to a name no queue declares
BindingsToUndeclared == UNION {BindingsTo(q) : q \in QueueNames \ DeclaredQueueNames}

C15_KeysDeclaredHandlersBound ==
    /\ Keys(queueHandlers) \subseteq DeclaredQueueNames
    /\ \A a \in 1..Len(queueHandlers) :
          queueHandlers[a].handler # Null =>
              \E p \in BindingsTo(queueHandlers[a].queue) :
                  Functions[p[1]][2].name = queueHandlers[a].handler
    /\ HasResources =>
          Cardinality(UnknownQueueWarnings)
              = Cardinality({p \in BindingsToUndeclared : Scanned(p)})

C15_Witness ==
    /\ pc = "started"
    /\ UnknownQueueWarnings # {}
    /\ \E a \in 1..Len(queueHandlers) : queueHandlers[a].handler # Null

(***************************************************************************)
(* C16: the pass of the event loop over a queue trigger whose reference is *)
(* a literal string is that of a binding to what follows the last ':' of   *)
(* the string, to the whole string when it holds no ':': the function is   *)
(* assigned to this name only when it is a key that is still unassigned,   *)
(* and a warning is logged otherwise.                                      *)
(***************************************************************************)
Suffixes(s) == {SubSeq(s, n + 1, Len(s)) : n \in 0..Len(s)}

LiteralReferenceResolved ==
    (AtEvent /\ HasReference(CurrentEvent) /\ Has(CurrentEvent.sqs.arn, "string")) =>
        LET arn == CurrentEvent.sqs.arn.string
        IN  /\ \E q \in Suffixes(arn) : IsLastSegment(arn, ":", q)
            /\ \A q \in Suffixes(arn) : IsLastSegment(arn, ":", q) => BoundTo(q)
            /\ ":" \notin Range(arn) => BoundTo(arn)

C16_LiteralReference == [][LiteralReferenceResolved]_vars

C16_Witness ==
    /\ pc = "started"
    /\ \E n \in 1..Len(log) : log[n].msg = "Queue already has handler configured. Only using it."
    /\ \E a \in 1..Len(queueHandlers) :
          /\ queueHandlers[a].handler # Null
          /\ \A p \in BindingsTo(queueHandlers[a].queue) :
                /\ Has(Functions[p[1]][2].events[p[2]].sqs.arn, "string")
                /\ ":" \in Range(Functions[p[1]][2].events[p[2]].sqs.arn.string)

(***************************************************************************)
(* C17: every invocation call is addressed to a function name that is not  *)
(* null, the handler of the message's queue; a SendMessage to a queue that *)
(* is declared and has no handler makes no invocation call and is answered *)
(* with HTTP 400.                                                          *)
(***************************************************************************)
ToUnassignedQueue(body) ==
    /\ HasMessage(body)
    /\ \E a \in 1..Len(queueHandlers) :
          /\ IsLastSegment(body.QueueUrl, "/", queueHandlers[a].queue)
          /\ queueHandlers[a].handler = Null

C17_InvocationsToAssignedHandlers ==
    /\ \A n \in 1..Len(invocations) :
          /\ invocations[n].command.FunctionName # Null
          /\ \E a \in 1..Len(queueHandlers) :
                /\ queueHandlers[a].handler = invocations[n].command.FunctionName
                /\ IsLastSegment(requests[invocations[n].request].body.QueueUrl, "/",
                                 queueHandlers[a].queue)
    /\ \A r \in 1..Len(requests) :
          ToUnassignedQueue(requests[r].body) =>
              /\ CallsOf(r) = {}
              /\ Answered(r)
              /\ requests[r].response.status = 400

(***************************************************************************)
(* C18: the checks of a request run in one order and stop at the first     *)
(* that fails: Action missing or empty, Action not SendMessage, QueueUrl   *)
(* missing, MessageBody missing or empty, no queue name in the QueueUrl,   *)
(* queue unknown.  The two failures of Action are answered 400 with their  *)
(* reason in plain text, the later ones 400 with an empty body; a failure  *)
(* logs one line, the warning of the first check that fails, and no call   *)
(* is made.                                                                *)
(***************************************************************************)
Missing(body, f) == ~Has(body, f) \/ body[f] = <<>>

\* the reply and the warning of the first check that `body` fails
FirstFailure(body) ==
    IF Missing(body, "Action")
    THEN [failed |-> TRUE, reply |-> "Missing Action query parameter",
          msg |-> "Received SQS request without Action"]
    ELSE IF body.Action # <<"SendMessage">>
    THEN [failed |-> TRUE, reply |-> "Only SendMessage actions are supported",
          msg |-> "Received unsupported SQS action"]
    ELSE IF Missing(body, "QueueUrl")
    THEN [failed |-> TRUE, reply |-> "", msg |-> "Missing QueueURL in SQS payload"]
    ELSE IF Missing(body, "MessageBody")
    THEN [failed |-> TRUE, reply |-> "", msg |-> "Missing MessageBody in SQS payload"]
    ELSE IF body.QueueUrl[Len(body.QueueUrl)] = "/"
    THEN [failed |-> TRUE, reply |-> "", msg |-> "Missing queue name in queue url"]
    ELSE IF \A q \in Keys(queueHandlers) : ~IsLastSegment(body.QueueUrl, "/", q)
    THEN [failed |-> TRUE, reply |-> "", msg |-> "Unknown queue name"]
    ELSE [failed |-> FALSE]

ChecksInOrder ==
    Len(requests') = Len(requests) + 1 =>
        LET first == FirstFailure(requests'[Len(requests')].body)
        IN  IF first.failed
            THEN /\ requests'[Len(requests')].state = "responded"
                 /\ requests'[Len(requests')].response = [status |-> 400, body |-> first.reply]
                 /\ Len(log') = Len(log) + 1
                 /\ SubSeq(log', 1, Len(log)) = log
                 /\ log'[Len(log')].level = "warning"
                 /\ log'[Len(log')].msg = first.msg
                 /\ invocations' = invocations
            ELSE /\ ~Has(requests'[Len(requests')], "response")
                 /\ \A n \in Len(log) + 1..Len(log') : log'[n].level # "warning"

C18_ChecksInOrder == [][ChecksInOrder]_vars

C18_Witness ==
    /\ \E r \in 1..Len(requests) :
          /\ Has(requests[r].body, "Action")
          /\ requests[r].body.Action = <<"ReceiveMessage">>
          /\ ~Has(requests[r].body, "QueueUrl")
    /\ \E r \in 1..Len(requests) :
          /\ IsSendMessage(requests[r].body)
          /\ ~Has(requests[r].body, "QueueUrl")
          /\ requests[r].body.MessageBody = <<>>

(***************************************************************************)
(* C19, as stated: a SendMessage whose QueueUrl ends with '/' or holds no  *)
(* '/' at all has no queue name: it is answered with HTTP 400 and makes no *)
(* invocation call.                                                        *)
(***************************************************************************)
EndsWithSeparator(body) == body.QueueUrl[Len(body.QueueUrl)] = "/"

C19_NoTrailingSegmentFails ==
    \A r \in 1..Len(requests) :
        (/\ HasMessage(requests[r].body)
         /\ \/ EndsWithSeparator(requests[r].body)
            \/ "/" \notin Range(requests[r].body.QueueUrl)) =>
            /\ Answered(r)
            /\ requests[r].response.status = 400
            /\ CallsOf(r) = {}

(***************************************************************************)
(* C19, amended: the queue name of a SendMessage is what follows the last  *)
(* '/' of its QueueUrl, and all of a QueueUrl that holds no '/'.  When the *)
(* QueueUrl ends with '/' the name is empty: the request is answered with  *)
(* HTTP 400 and an empty body, one 'Missing queue name' warning is logged  *)
(* for it and no call is made.  Otherwise the name is looked up: one call  *)
(* with the name in its source ARN when it is a key, HTTP 400 and no call  *)
(* when it is not.                                                         *)
(***************************************************************************)
MissingNameWarnings ==
    {n \in 1..Len(log) :
        log[n].level = "warning" /\ log[n].msg = "Missing queue name in queue url"}

C19_EmptyTrailingSegmentFails ==
    /\ \A r \in 1..Len(requests) :
          HasMessage(requests[r].body) =>
              IF EndsWithSeparator(requests[r].body)
              THEN /\ Answered(r)
                   /\ requests[r].response = [status |-> 400, body |-> ""]
                   /\ CallsOf(r) = {}
              ELSE \E q \in Suffixes(requests[r].body.QueueUrl) :
                      /\ IsLastSegment(requests[r].body.QueueUrl, "/", q)
                      /\ IF q \in Keys(queueHandlers)
                         THEN /\ Cardinality(CallsOf(r)) = 1
                              /\ \A n \in CallsOf(r) :
                                    invocations[n].command.Payload.Records[1].eventSourceARN
                                        = <<"arn", ":", "aws", ":", "sqs", ":", "localhost", ":",
                                            "000000000000", ":">> \o q
                         ELSE /\ Answered(r)
                              /\ requests[r].response = [status |-> 400, body |-> ""]
                              /\ CallsOf(r) = {}
    /\ Cardinality(MissingNameWarnings)
           = Cardinality({r \in 1..Len(requests) :
                             HasMessage(requests[r].body) /\ EndsWithSeparator(requests[r].body)})

C19_Witness ==
    /\ \E r \in 1..Len(requests) :
          HasMessage(requests[r].body) /\ EndsWithSeparator(requests[r].body)
    /\ \E r \in 1..Len(requests) :
          /\ HasMessage(requests[r].body)
          /\ "/" \notin Range(requests[r].body.QueueUrl)
          /\ CallsOf(r) # {}

====
